---- MODULE Spec2Model ----
(***************************************************************************)
(* Model of death_value.py: the batch pipeline that joins a player's death *)
(* events with the tick table, soft-maxes the teammates' distances, keeps  *)
(* the closest teammate per death tick, applies the trade flag, scores the *)
(* deaths and writes the spreadsheet and the optional map.                 *)
(*                                                                         *)
(* Numbers.  Coordinates and distances are integers in game units.  A      *)
(* value of exp(-d/1000) is a fixed-point integer (ExpNeg), a softmax      *)
(* weight is the exact quotient [num, den] of two such values and is       *)
(* compared by cross multiplication, a weighted score is a quotient too.   *)
(***************************************************************************)
EXTENDS Integers, Sequences, FiniteSets, TLC

VARIABLES
    pc,              \* position of the run in the script / in get_death_values
    file_exists,     \* os.path.exists(args.demo_file)
    args_map,        \* args.map
    demo_data,       \* Demo(...): its kills, ticks and events, with a flag
                     \* for each of kills and ticks being None
    player_deaths,   \* parsed_kills filtered on the subject
    kills,           \* demo_data.kills, each row with calculate_trades' column
    teammates_data,  \* result of get_teammates_on_death
    death_values,    \* the dict of get_death_values, in insertion order
    w_death_values,  \* the table of calc_weight
    idx,             \* loop position inside get_death_values
    points,          \* point_settings built by gen_death_map
    xlsx_written,    \* <player>_deaths.xlsx exists
    map_written,     \* deathmap.png exists
    err              \* the error message printed, "none" if none

vars == <<pc, file_exists, args_map, demo_data, player_deaths, kills,
          teammates_data, death_values, w_death_values, idx, points,
          xlsx_written, map_written, err>>

(***************************************************************************)
(* Bounds of the model                                                     *)
(***************************************************************************)
MaxKills == 2    \* rows of demo.kills in a run of the script
MaxRows == 4     \* teammate records plus kill rows given to get_death_values

Ticks == {1, 2}
player_name == "P"
Unset == <<>>

\* positions a death of the subject is drawn from, and the other players
SubjectPos == {<<0, 0>>, <<0, 100>>, <<100, 0>>}
PosOf(name) == CASE name = "A" -> <<300, 0>>
                 [] name = "B" -> <<0, 300>>
                 [] OTHER      -> <<900, 900>>
RoundOf(t) == t

(***************************************************************************)
(* Sequence helpers                                                        *)
(***************************************************************************)
RECURSIVE SeqSum(_)
SeqSum(s) == IF s = <<>> THEN 0 ELSE Head(s) + SeqSum(Tail(s))

RECURSIVE Flatten(_)
Flatten(ss) == IF ss = <<>> THEN <<>> ELSE Head(ss) \o Flatten(Tail(ss))

SeqsUpTo(S, n) == UNION {[1..k -> S] : k \in 0..n}

(***************************************************************************)
(* calc_distance and softmax                                               *)
(***************************************************************************)
SoftmaxScale == 1000

\* the integer square root of n, by bisection on lo*lo <= n < hi*hi
RECURSIVE ISqrtIn(_, _, _)
ISqrtIn(n, lo, hi) ==
    IF hi - lo <= 1 THEN lo
    ELSE LET mid == (lo + hi) \div 2
         IN  IF mid * mid <= n THEN ISqrtIn(n, mid, hi) ELSE ISqrtIn(n, lo, mid)

\* np.sqrt((x1 - x2)**2 + (y1 - y2)**2), rounded down to a game unit
calc_distance(x1, y1, x2, y2) ==
    ISqrtIn((x1 - x2) * (x1 - x2) + (y1 - y2) * (y1 - y2), 0, 2048)

\* exp(d / 1000) in units of 1/10000, by its power series
RECURSIVE ExpSeries(_, _, _)
ExpSeries(d, k, term) ==
    IF term = 0 THEN 0
    ELSE term + ExpSeries(d, k + 1, (term * d) \div (SoftmaxScale * (k + 1)))

\* np.exp(-(d / 1000)) in units of 1/10000
ExpNegCalc(d) == (10000 * 10000) \div ExpSeries(d, 0, 10000)

Distances ==
    {calc_distance(p[1], p[2], PosOf(n)[1], PosOf(n)[2]) :
        p \in SubjectPos, n \in {"A", "B", "E"}}

ExpTable == [d \in Distances |-> ExpNegCalc(d)]

ExpNeg(d) == IF d \in DOMAIN ExpTable THEN ExpTable[d] ELSE ExpNegCalc(d)

\* softmax without the division by the sum
softmax_unnormalised(distances) ==
    [i \in 1..Len(distances) |-> [num |-> ExpNeg(distances[i]), den |-> 10000]]

\* exp_distances / np.sum(exp_distances)
softmax(distances) ==
    LET exp_distances == [i \in 1..Len(distances) |-> ExpNeg(distances[i])]
        total == SeqSum(exp_distances)
    IN  [i \in 1..Len(distances) |-> [num |-> exp_distances[i], den |-> total]]

\* a > b on two softmax values
WGt(a, b) == a.num * b.den > b.num * a.den
WEq(a, b) == a.num * b.den = b.num * a.den

(***************************************************************************)
(* get_teammates_on_death                                                  *)
(***************************************************************************)
\* the selection without the comparison of the team
TeammatesOf_any_team(locations, subject, death) ==
    SelectSeq(locations,
              LAMBDA r : r.tick = death.tick /\ r.name # subject)

\* lines 54-59: the rows of the tick table kept for one death
TeammatesOf(locations, subject, death) ==
    SelectSeq(locations,
              LAMBDA r : /\ r.tick = death.tick
                         /\ r.team_name = death.victim_team_name
                         /\ r.name # subject)

\* lines 47-69: the records appended for one (death, kill) pair
RecordsOfPair(locations, subject, death, kill) ==
    IF kill.tick = death.tick
    THEN LET teammates == TeammatesOf(locations, subject, death)
             distances == [i \in 1..Len(teammates) |->
                              calc_distance(death.victim_X, death.victim_Y,
                                            teammates[i].X, teammates[i].Y)]
             softmax_values == softmax(distances)
         IN  [i \in 1..Len(teammates) |->
                 [tick |-> death.tick, round |-> kill.round,
                  teammate |-> teammates[i].name, softmax |-> softmax_values[i]]]
    ELSE <<>>

\* lines 46-69: the inner loop over the kill rows, for one death
RecordsOfDeath(locations, subject, death, kill_rows) ==
    Flatten([k \in 1..Len(kill_rows) |->
                RecordsOfPair(locations, subject, death, kill_rows[k])])

get_teammates_on_death(locations, subject, deaths, kill_rows) ==
    Flatten([d \in 1..Len(deaths) |->
                RecordsOfDeath(locations, subject, deaths[d], kill_rows)])

(***************************************************************************)
(* get_death_values                                                        *)
(***************************************************************************)
\* the dict is the sequence of its entries in insertion order, keyed by tick
HasKey(dv, t) == \E i \in 1..Len(dv) : dv[i].tick = t
KeyIndex(dv, t) == CHOOSE i \in 1..Len(dv) : dv[i].tick = t
Lookup(dv, t) == dv[KeyIndex(dv, t)]

Entry(death) ==
    [tick |-> death.tick, softmax |-> death.softmax, was_traded |-> FALSE,
     round |-> death.round, teammate |-> death.teammate]

\* the first loop with >= for >: the last of equal weights is kept
FirstPassStep_ge(dv, death) ==
    IF HasKey(dv, death.tick)
    THEN IF ~WGt(Lookup(dv, death.tick).softmax, death.softmax)
         THEN [dv EXCEPT ![KeyIndex(dv, death.tick)] = Entry(death)]
         ELSE dv
    ELSE Append(dv, Entry(death))

\* the first loop with < for >: the smallest weight is kept
FirstPassStep_lt(dv, death) ==
    IF HasKey(dv, death.tick)
    THEN IF WGt(Lookup(dv, death.tick).softmax, death.softmax)
         THEN [dv EXCEPT ![KeyIndex(dv, death.tick)] = Entry(death)]
         ELSE dv
    ELSE Append(dv, Entry(death))

\* the first loop deleting the key before it stores the larger weight, which
\* moves the key to the end of the dict
FirstPassStep_reinsert(dv, death) ==
    IF HasKey(dv, death.tick)
    THEN IF WGt(death.softmax, Lookup(dv, death.tick).softmax)
         THEN Append(SelectSeq(dv, LAMBDA e : e.tick # death.tick), Entry(death))
         ELSE dv
    ELSE Append(dv, Entry(death))

\* lines 89-99: one iteration of the first loop
FirstPassStep(dv, death) ==
    IF HasKey(dv, death.tick)
    THEN IF WGt(death.softmax, Lookup(dv, death.tick).softmax)
         THEN [dv EXCEPT ![KeyIndex(dv, death.tick)] = Entry(death)]
         ELSE dv
    ELSE Append(dv, Entry(death))

\* the second loop storing the row's flag, whatever it is
TradePassStep_overwrite(dv, subject, trade) ==
    IF trade.victim_name = subject
    THEN IF HasKey(dv, trade.tick)
         THEN [dv EXCEPT ![KeyIndex(dv, trade.tick)].was_traded = trade.was_traded]
         ELSE dv
    ELSE dv

\* the second loop without the comparison of the victim
TradePassStep_any_victim(dv, subject, trade) ==
    IF trade.was_traded
    THEN IF HasKey(dv, trade.tick)
         THEN [dv EXCEPT ![KeyIndex(dv, trade.tick)].was_traded = TRUE]
         ELSE dv
    ELSE dv

\* lines 101-109: one iteration of the second loop
TradePassStep(dv, subject, trade) ==
    IF trade.victim_name = subject /\ trade.was_traded
    THEN IF HasKey(dv, trade.tick)
         THEN [dv EXCEPT ![KeyIndex(dv, trade.tick)].was_traded = TRUE]
         ELSE dv
    ELSE dv

\* line 87: awpy's calculate_trades gives one row per kill with its
\* was_traded column; the column's value is drawn with the kill row
calculate_trades(kill_rows) ==
    [i \in 1..Len(kill_rows) |->
        [tick |-> kill_rows[i].tick, victim_name |-> kill_rows[i].victim_name,
         was_traded |-> kill_rows[i].was_traded]]

RECURSIVE FirstPass(_, _)
FirstPass(dv, td) ==
    IF td = <<>> THEN dv ELSE FirstPass(FirstPassStep(dv, Head(td)), Tail(td))

RECURSIVE TradePass(_, _, _)
TradePass(dv, subject, trades) ==
    IF trades = <<>> THEN dv
    ELSE TradePass(TradePassStep(dv, subject, Head(trades)), subject, Tail(trades))

get_death_values(td, subject, kill_rows) ==
    TradePass(FirstPass(<<>>, td), subject, calculate_trades(kill_rows))

(***************************************************************************)
(* calc_weight                                                             *)
(***************************************************************************)
AlphaPct == 70
BetaPct == 30

\* alpha * (1 - softmax_value) + trade_bonus, as a quotient
WeightedScore(softmax_value, was_traded) ==
    [num |-> AlphaPct * (softmax_value.den - softmax_value.num)
             + (IF was_traded THEN BetaPct ELSE 0) * softmax_value.den,
     den |-> 100 * softmax_value.den]

calc_weight(dv) ==
    [i \in 1..Len(dv) |->
        [Tick |-> dv[i].tick, Proximity |-> dv[i].softmax,
         WasTraded |-> dv[i].was_traded,
         WeightedScore |-> WeightedScore(dv[i].softmax, dv[i].was_traded),
         Round |-> dv[i].round, ClosestTeammate |-> dv[i].teammate]]

(***************************************************************************)
(* gen_death_map                                                           *)
(***************************************************************************)
GreenPct == 60
YellowPct == 38

\* lines 194-199
ColorOf(score) ==
    IF score.num * 100 >= GreenPct * score.den THEN "green"
    ELSE IF score.num * 100 >= YellowPct * score.den THEN "yellow"
    ELSE "red"

\* line 190: w_death_values[w_death_values["Tick"] == death["tick"]]
RowsOfTick(w, t) == SelectSeq(w, LAMBDA r : r.Tick = t)

\* lines 189-210: the loop, up to the first death whose row selection is
\* empty, where .values[0] raises IndexError
RECURSIVE MapPoints(_, _)
MapPoints(deaths, w) ==
    IF deaths = <<>> THEN [raised |-> FALSE, settings |-> <<>>]
    ELSE LET death == Head(deaths)
             row == RowsOfTick(w, death.tick)
         IN  IF row = <<>> THEN [raised |-> TRUE, settings |-> <<>>]
             ELSE LET rest == MapPoints(Tail(deaths), w)
                  IN  [raised |-> rest.raised,
                       settings |->
                          <<[X |-> death.victim_X, Y |-> death.victim_Y,
                             color |-> ColorOf(row[1].WeightedScore),
                             label |-> death.tick]>> \o rest.settings]

(***************************************************************************)
(* The inputs: what Demo(...) can hold                                     *)
(***************************************************************************)
TeamOf(name) == IF name = "E" THEN "T" ELSE "CT"

TickRow(t, name) ==
    [tick |-> t, X |-> PosOf(name)[1], Y |-> PosOf(name)[2],
     team_name |-> TeamOf(name), name |-> name]

\* the rows of one tick: the subject, the teammates alive (S), the enemy
TickRowsAt(t, S) ==
    SelectSeq(<<TickRow(t, player_name), TickRow(t, "A"), TickRow(t, "B"),
                TickRow(t, "E")>>,
              LAMBDA r : r.name \in S \cup {player_name, "E"})

TickTables ==
    {TickRowsAt(1, S1) \o TickRowsAt(2, S2) : S1 \in SUBSET {"A", "B"},
                                              S2 \in SUBSET {"A", "B"}}

\* the kill events of one tick: none, the subject's death, the enemy's death
EventsAt(t) ==
    {<<>>}
    \cup {<<[tick |-> t, victim_name |-> player_name, victim_X |-> p[1],
             victim_Y |-> p[2], victim_team_name |-> TeamOf(player_name)]>> :
          p \in SubjectPos}
    \cup {<<[tick |-> t, victim_name |-> "E", victim_X |-> PosOf("E")[1],
             victim_Y |-> PosOf("E")[2], victim_team_name |-> TeamOf("E")]>>}

EventTables == {e1 \o e2 : e1 \in EventsAt(1), e2 \in EventsAt(2)}

KillRows ==
    {[tick |-> t, round |-> RoundOf(t), victim_name |-> v[1], was_traded |-> v[2]] :
        t \in Ticks,
        v \in {<<player_name, TRUE>>, <<player_name, FALSE>>, <<"E", FALSE>>}}

\* demo.kills is in tick order
KillTables ==
    {k \in SeqsUpTo(KillRows, MaxKills) :
        \A i \in 1..Len(k) - 1 : k[i].tick <= k[i + 1].tick}

(***************************************************************************)
(* The script, lines 215-259                                               *)
(***************************************************************************)
NotLoaded ==
    [loaded |-> FALSE, kills_is_none |-> FALSE, kills |-> Unset,
     ticks_is_none |-> FALSE, ticks |-> Unset, events |-> Unset]

Init ==
    /\ pc = "check_path"
    /\ file_exists \in BOOLEAN
    /\ args_map \in BOOLEAN
    /\ demo_data = NotLoaded
    /\ player_deaths = Unset
    /\ kills = Unset
    /\ teammates_data = Unset
    /\ death_values = Unset
    /\ w_death_values = Unset
    /\ idx = 0
    /\ points = Unset
    /\ xlsx_written = FALSE
    /\ map_written = FALSE
    /\ err = "none"

\* lines 222-224
CheckPath ==
    /\ pc = "check_path"
    /\ IF ~file_exists
       THEN pc' = "exited" /\ err' = "demo file not found"
       ELSE pc' = "load_demo" /\ err' = err
    /\ UNCHANGED <<file_exists, args_map, demo_data, player_deaths, kills,
                   teammates_data, death_values, w_death_values, idx, points,
                   xlsx_written, map_written>>

\* line 226
LoadDemo ==
    /\ pc = "load_demo"
    /\ \E kills_none \in BOOLEAN, ticks_none \in BOOLEAN :
       \E k \in IF kills_none THEN {Unset} ELSE KillTables,
          t \in IF ticks_none THEN {Unset} ELSE TickTables,
          e \in EventTables :
          demo_data' = [loaded |-> TRUE,
                        kills_is_none |-> kills_none, kills |-> k,
                        ticks_is_none |-> ticks_none, ticks |-> t,
                        events |-> e]
    /\ pc' = "check_kills"
    /\ UNCHANGED <<file_exists, args_map, player_deaths, kills, teammates_data,
                   death_values, w_death_values, idx, points, xlsx_written,
                   map_written, err>>

\* lines 228-230
CheckKills ==
    /\ pc = "check_kills"
    /\ IF demo_data.kills_is_none
       THEN pc' = "exited" /\ err' = "kills not found"
       ELSE pc' = "check_ticks" /\ err' = err
    /\ UNCHANGED <<file_exists, args_map, demo_data, player_deaths, kills,
                   teammates_data, death_values, w_death_values, idx, points,
                   xlsx_written, map_written>>

\* the check of the ticks printing its message without sys.exit()
CheckTicks_no_exit ==
    /\ pc = "check_ticks"
    /\ pc' = "parse_kills"
    /\ err' = IF demo_data.ticks_is_none THEN "ticks not found" ELSE err
    /\ UNCHANGED <<file_exists, args_map, demo_data, player_deaths, kills,
                   teammates_data, death_values, w_death_values, idx, points,
                   xlsx_written, map_written>>

\* lines 232-234
CheckTicks ==
    /\ pc = "check_ticks"
    /\ IF demo_data.ticks_is_none
       THEN pc' = "exited" /\ err' = "ticks not found"
       ELSE pc' = "parse_kills" /\ err' = err
    /\ UNCHANGED <<file_exists, args_map, demo_data, player_deaths, kills,
                   teammates_data, death_values, w_death_values, idx, points,
                   xlsx_written, map_written>>

\* lines 236-239
ParseKills ==
    /\ pc = "parse_kills"
    /\ player_deaths' =
          SelectSeq(demo_data.events, LAMBDA r : r.victim_name = player_name)
    /\ kills' = demo_data.kills
    /\ pc' = "get_teammates_on_death"
    /\ UNCHANGED <<file_exists, args_map, demo_data, teammates_data,
                   death_values, w_death_values, idx, points, xlsx_written,
                   map_written, err>>

\* line 243
GetTeammatesOnDeath ==
    /\ pc = "get_teammates_on_death"
    /\ teammates_data' =
          get_teammates_on_death(demo_data.ticks, player_name, player_deaths, kills)
    /\ pc' = "get_death_values"
    /\ UNCHANGED <<file_exists, args_map, demo_data, player_deaths, kills,
                   death_values, w_death_values, idx, points, xlsx_written,
                   map_written, err>>

\* line 246
GetDeathValues ==
    /\ pc = "get_death_values"
    /\ death_values' = get_death_values(teammates_data, player_name, kills)
    /\ pc' = "calc_weight"
    /\ UNCHANGED <<file_exists, args_map, demo_data, player_deaths, kills,
                   teammates_data, w_death_values, idx, points, xlsx_written,
                   map_written, err>>

\* line 249
CalcWeight ==
    /\ pc = "calc_weight"
    /\ w_death_values' = calc_weight(death_values)
    /\ pc' = "export_dv_xlsx"
    /\ UNCHANGED <<file_exists, args_map, demo_data, player_deaths, kills,
                   teammates_data, death_values, idx, points, xlsx_written,
                   map_written, err>>

\* line 254
ExportDvXlsx ==
    /\ pc = "export_dv_xlsx"
    /\ xlsx_written' = TRUE
    /\ pc' = "map_flag"
    /\ UNCHANGED <<file_exists, args_map, demo_data, player_deaths, kills,
                   teammates_data, death_values, w_death_values, idx, points,
                   map_written, err>>

\* line 256
MapFlag ==
    /\ pc = "map_flag"
    /\ pc' = IF args_map THEN "gen_death_map" ELSE "done"
    /\ UNCHANGED <<file_exists, args_map, demo_data, player_deaths, kills,
                   teammates_data, death_values, w_death_values, idx, points,
                   xlsx_written, map_written, err>>

\* lines 258-259 and 187-213: an IndexError of line 193 ends the run before
\* plot and savefig
GenDeathMap ==
    /\ pc = "gen_death_map"
    /\ LET r == MapPoints(player_deaths, w_death_values)
       IN  IF r.raised
           THEN /\ pc' = "raised"
                /\ err' = "IndexError"
                /\ UNCHANGED <<points, map_written>>
           ELSE /\ pc' = "done"
                /\ points' = r.settings
                /\ map_written' = TRUE
                /\ err' = err
    /\ UNCHANGED <<file_exists, args_map, demo_data, player_deaths, kills,
                   teammates_data, death_values, w_death_values, idx,
                   xlsx_written>>

Next ==
    \/ CheckPath
    \/ LoadDemo
    \/ CheckKills
    \/ CheckTicks
    \/ ParseKills
    \/ GetTeammatesOnDeath
    \/ GetDeathValues
    \/ CalcWeight
    \/ ExportDvXlsx
    \/ MapFlag
    \/ GenDeathMap

Spec == Init /\ [][Next]_vars

(***************************************************************************)
(* get_death_values and calc_weight on their own, one loop iteration per   *)
(* step, from any list of teammate records and any kill table              *)
(***************************************************************************)
Weights == {[num |-> 1, den |-> 3], [num |-> 2, den |-> 3]}

Records ==
    {[tick |-> t, round |-> RoundOf(t), teammate |-> n, softmax |-> w] :
        t \in Ticks, n \in {"A", "B"}, w \in Weights}

AnyKillRows ==
    {[tick |-> t, round |-> RoundOf(t), victim_name |-> v, was_traded |-> b] :
        t \in Ticks, v \in {player_name, "E"}, b \in BOOLEAN}

InitAgg ==
    /\ pc = "first_loop"
    /\ teammates_data \in SeqsUpTo(Records, MaxRows)
    /\ kills \in SeqsUpTo(AnyKillRows, MaxRows - Len(teammates_data))
    /\ death_values = <<>>
    /\ idx = 1
    /\ file_exists = TRUE
    /\ args_map = FALSE
    /\ demo_data = NotLoaded
    /\ player_deaths = Unset
    /\ w_death_values = Unset
    /\ points = Unset
    /\ xlsx_written = FALSE
    /\ map_written = FALSE
    /\ err = "none"

\* lines 89-99, one record
FirstLoopStep ==
    /\ pc = "first_loop"
    /\ idx <= Len(teammates_data)
    /\ death_values' = FirstPassStep(death_values, teammates_data[idx])
    /\ idx' = idx + 1
    /\ UNCHANGED <<pc, file_exists, args_map, demo_data, player_deaths, kills,
                   teammates_data, w_death_values, points, xlsx_written,
                   map_written, err>>

\* line 89 exhausted, line 101 entered
FirstLoopEnd ==
    /\ pc = "first_loop"
    /\ idx > Len(teammates_data)
    /\ pc' = "second_loop"
    /\ idx' = 1
    /\ UNCHANGED <<file_exists, args_map, demo_data, player_deaths, kills,
                   teammates_data, death_values, w_death_values, points,
                   xlsx_written, map_written, err>>

\* lines 101-109, one trade row
SecondLoopStep ==
    /\ pc = "second_loop"
    /\ idx <= Len(calculate_trades(kills))
    /\ death_values' =
          TradePassStep(death_values, player_name, calculate_trades(kills)[idx])
    /\ idx' = idx + 1
    /\ UNCHANGED <<pc, file_exists, args_map, demo_data, player_deaths, kills,
                   teammates_data, w_death_values, points, xlsx_written,
                   map_written, err>>

\* line 111
ReturnDeathValues ==
    /\ pc = "second_loop"
    /\ idx > Len(calculate_trades(kills))
    /\ pc' = "calc_weight"
    /\ UNCHANGED <<file_exists, args_map, demo_data, player_deaths, kills,
                   teammates_data, death_values, w_death_values, idx, points,
                   xlsx_written, map_written, err>>

NextAgg ==
    \/ FirstLoopStep
    \/ FirstLoopEnd
    \/ SecondLoopStep
    \/ ReturnDeathValues
    \/ CalcWeight

SpecAgg == InitAgg /\ [][NextAgg]_vars

(***************************************************************************)
(* Properties of get_death_values and calc_weight (SpecAgg)                *)
(***************************************************************************)
TicksOf(rows) == {rows[i].tick : i \in 1..Len(rows)}

\* every reordering of a list
PermsOf(s) ==
    {[i \in 1..Len(s) |-> s[f[i]]] : f \in Permutations(1..Len(s))}

\* the ticks of a list of records, each at its first occurrence
FirstTicks(td) ==
    LET first == SelectSeq([i \in 1..Len(td) |-> i],
                           LAMBDA i : \A j \in 1..(i - 1) : td[j].tick # td[i].tick)
    IN  [n \in 1..Len(first) |-> td[first[n]].tick]

trades == calculate_trades(kills)

\* C1: a step of the second loop never clears a was_traded flag and leaves
\* the keys and each record's proximity, round and closest teammate as they
\* are, so that these are the ones the first loop chose whatever the trade
\* rows are.
C1_TradeStepFrame ==
    [][pc = "second_loop" =>
         LET chosen == FirstPass(<<>>, teammates_data)
         IN  /\ Len(death_values') = Len(death_values)
             /\ Len(chosen) = Len(death_values)
             /\ \A i \in 1..Len(death_values) :
                   /\ death_values[i].was_traded => death_values'[i].was_traded
                   /\ death_values'[i].tick = death_values[i].tick
                   /\ death_values'[i].softmax = death_values[i].softmax
                   /\ death_values'[i].round = death_values[i].round
                   /\ death_values'[i].teammate = death_values[i].teammate
                   /\ death_values'[i].teammate = chosen[i].teammate
                   /\ death_values'[i].softmax = chosen[i].softmax]_vars

\* a flag set by a traded row of the subject has met a later row of the
\* subject at the same tick that is not traded
C1_Witness ==
    /\ pc = "second_loop"
    /\ idx = 3
    /\ trades[1].victim_name = player_name /\ trades[1].was_traded
    /\ trades[2].victim_name = player_name /\ ~trades[2].was_traded
    /\ trades[2].tick = trades[1].tick
    /\ HasKey(death_values, trades[1].tick)
    /\ Lookup(death_values, trades[1].tick).was_traded

\* C2 as claimed: after the first loop, every reordering of the teammate
\* records gives the same record per tick, equal weights included.
C2_SameForEveryOrder ==
    (pc = "second_loop" /\ idx = 1) =>
        \A p \in PermsOf(teammates_data) :
            LET r == FirstPass(<<>>, p)
            IN  /\ TicksOf(r) = TicksOf(death_values)
                /\ \A i \in 1..Len(r) : Lookup(death_values, r[i].tick) = r[i]

\* C2 as amended: after the first loop the stored weight of a tick is the
\* maximum weight among the records of that tick, for every reordering of
\* the list, and the stored teammate and round are those of the first record
\* in list order that carries this maximum.
C2_MaxWeightFirstCarrier ==
    (pc = "second_loop" /\ idx = 1) =>
        /\ TicksOf(death_values) = TicksOf(teammates_data)
        /\ \A i \in 1..Len(death_values) :
              LET e == death_values[i]
              IN  /\ \A k \in 1..Len(teammates_data) :
                        teammates_data[k].tick = e.tick
                            => ~WGt(teammates_data[k].softmax, e.softmax)
                  /\ \E k \in 1..Len(teammates_data) :
                        /\ teammates_data[k].tick = e.tick
                        /\ teammates_data[k].softmax = e.softmax
                        /\ teammates_data[k].teammate = e.teammate
                        /\ teammates_data[k].round = e.round
                        /\ \A j \in 1..(k - 1) :
                              teammates_data[j].tick = e.tick
                                  => ~WEq(teammates_data[j].softmax, e.softmax)
        /\ \A p \in PermsOf(teammates_data) :
              LET r == FirstPass(<<>>, p)
              IN  /\ TicksOf(r) = TicksOf(death_values)
                  /\ \A i \in 1..Len(r) :
                        WEq(r[i].softmax, Lookup(death_values, r[i].tick).softmax)

\* two teammates of one tick carry the maximum, and the earlier one is stored
C2_Witness ==
    /\ pc = "second_loop"
    /\ idx = 1
    /\ \E j, k \in 1..Len(teammates_data) :
          /\ j < k
          /\ teammates_data[j].tick = teammates_data[k].tick
          /\ teammates_data[j].teammate # teammates_data[k].teammate
          /\ WEq(teammates_data[j].softmax, teammates_data[k].softmax)
          /\ \A m \in 1..Len(teammates_data) :
                teammates_data[m].tick = teammates_data[j].tick
                    => /\ ~WGt(teammates_data[m].softmax, teammates_data[j].softmax)
                       /\ (WEq(teammates_data[m].softmax, teammates_data[j].softmax)
                              => m >= j)
          /\ Lookup(death_values, teammates_data[j].tick).teammate
                = teammates_data[j].teammate

\* C9: when get_death_values has returned, the keys are the ticks of the
\* teammate records, each once, and a key's was_traded is true exactly when
\* some trade row has its tick, the subject as victim and was_traded true.
C9_TradedIffSubjectTradedRow ==
    pc \in {"calc_weight", "export_dv_xlsx"} =>
        /\ TicksOf(death_values) = TicksOf(teammates_data)
        /\ \A i, j \in 1..Len(death_values) :
              death_values[i].tick = death_values[j].tick => i = j
        /\ \A i \in 1..Len(death_values) :
              death_values[i].was_traded
                 <=> \E j \in 1..Len(trades) :
                        /\ trades[j].tick = death_values[i].tick
                        /\ trades[j].victim_name = player_name
                        /\ trades[j].was_traded

\* a traded row of another victim at the tick of a record, and a traded row
\* of the subject at a tick without record
C9_Witness ==
    /\ pc = "calc_weight"
    /\ \E i \in 1..Len(death_values), j \in 1..Len(trades) :
          /\ trades[j].tick = death_values[i].tick
          /\ trades[j].victim_name # player_name
          /\ trades[j].was_traded
          /\ ~death_values[i].was_traded
    /\ \E j \in 1..Len(trades) :
          /\ trades[j].victim_name = player_name
          /\ trades[j].was_traded
          /\ ~HasKey(death_values, trades[j].tick)

\* C10: the score table has at most one row per tick, every row's tick is a
\* tick of the teammate records, and the rows are in the order in which
\* their ticks first occur in the teammate records.
C10_RowsInFirstEncounterOrder ==
    pc = "export_dv_xlsx" =>
        /\ \A i, j \in 1..Len(w_death_values) :
              w_death_values[i].Tick = w_death_values[j].Tick => i = j
        /\ \A i \in 1..Len(w_death_values) :
              w_death_values[i].Tick \in TicksOf(teammates_data)
        /\ [i \in 1..Len(w_death_values) |-> w_death_values[i].Tick]
              = FirstTicks(teammates_data)

\* the record of the first tick met was replaced after a second tick was met
C10_Witness ==
    /\ pc = "export_dv_xlsx"
    /\ Len(teammates_data) >= 3
    /\ teammates_data[1].tick # teammates_data[2].tick
    /\ teammates_data[3].tick = teammates_data[1].tick
    /\ WGt(teammates_data[3].softmax, teammates_data[1].softmax)
    /\ Len(w_death_values) = 2
    /\ w_death_values[1].Tick = teammates_data[1].tick
    /\ w_death_values[1].Proximity = teammates_data[3].softmax

(***************************************************************************)
(* Properties of a run of the script (Spec)                                *)
(***************************************************************************)
\* the rows of the tick table that hold, at the tick of a death, a player of
\* the victim's team other than the subject
SameTeamOthers(d) ==
    {i \in 1..Len(demo_data.ticks) :
        /\ demo_data.ticks[i].tick = d.tick
        /\ demo_data.ticks[i].team_name = d.victim_team_name
        /\ demo_data.ticks[i].name # player_name}

\* the teammate records of a tick
RecordsAt(t) == {i \in 1..Len(teammates_data) : teammates_data[i].tick = t}

DeathRows == {player_deaths[i] : i \in 1..Len(player_deaths)}

\* the square of the distance between a death and a row of the tick table
SqDist(d, r) ==
    (d.victim_X - r.X) * (d.victim_X - r.X) + (d.victim_Y - r.Y) * (d.victim_Y - r.Y)

AfterTeammates ==
    pc \in {"get_death_values", "calc_weight", "export_dv_xlsx", "map_flag",
            "gen_death_map", "done", "raised"}

AfterDeathValues == AfterTeammates /\ pc # "get_death_values"

\* C3: a death at whose tick the tick table has no player of the victim's
\* team other than the subject has no teammate record, no key in the death
\* values and no row in the score table.
C3_NoTeammateNoRecord ==
    AfterTeammates =>
        \A d \in DeathRows :
            SameTeamOthers(d) = {} =>
                /\ RecordsAt(d.tick) = {}
                /\ ~HasKey(death_values, d.tick)
                /\ RowsOfTick(w_death_values, d.tick) = <<>>

\* the score table is built, one death has a row in it, and another death,
\* with a kill row at its tick, has only the subject and the enemy around
C3_Witness ==
    /\ pc = "map_flag"
    /\ w_death_values # <<>>
    /\ \E d \in DeathRows :
          /\ SameTeamOthers(d) = {}
          /\ \E k \in 1..Len(kills) : kills[k].tick = d.tick
          /\ \E i \in 1..Len(demo_data.ticks) :
                /\ demo_data.ticks[i].tick = d.tick
                /\ demo_data.ticks[i].team_name # d.victim_team_name

\* C4 as claimed: the number of teammate records of a death is the number of
\* players of the victim's team other than the subject at the death tick,
\* whatever the kill table holds.
C4_OneRecordPerTeammate ==
    AfterTeammates =>
        \A d \in DeathRows :
            Cardinality(RecordsAt(d.tick)) = Cardinality(SameTeamOthers(d))

\* C5: when the demo file does not exist, or the demo has no kills, or it
\* has no ticks, the run never gets past the three checks: it ends with the
\* message of the first check that fails, no later step has run and neither
\* file is written.
C5_FailedCheckStopsRun ==
    (\/ ~file_exists
     \/ demo_data.loaded /\ (demo_data.kills_is_none \/ demo_data.ticks_is_none))
    =>
        /\ pc \in {"check_path", "load_demo", "check_kills", "check_ticks", "exited"}
        /\ ~xlsx_written
        /\ ~map_written
        /\ player_deaths = Unset /\ teammates_data = Unset
        /\ death_values = Unset /\ w_death_values = Unset /\ points = Unset
        /\ pc = "exited" =>
              err = IF ~file_exists THEN "demo file not found"
                    ELSE IF demo_data.kills_is_none THEN "kills not found"
                    ELSE "ticks not found"

\* the run has ended at the check of the ticks, with kills present
C5_Witness ==
    /\ pc = "exited"
    /\ file_exists
    /\ demo_data.loaded
    /\ ~demo_data.kills_is_none
    /\ demo_data.ticks_is_none
    /\ demo_data.events # <<>>
    /\ err = "ticks not found"

\* C6 as claimed: when the map is requested, gen_death_map makes one point
\* per death row of the subject, labelled with the death tick and coloured
\* by the weighted score of that tick.
C6_OnePointPerDeath ==
    (args_map /\ pc \in {"done", "raised"}) =>
        /\ Len(points) = Len(player_deaths)
        /\ \A i \in 1..Len(points) :
              /\ points[i].label = player_deaths[i].tick
              /\ \E j \in 1..Len(w_death_values) :
                    /\ w_death_values[j].Tick = player_deaths[i].tick
                    /\ points[i].color =
                          LET sc == w_death_values[j].WeightedScore
                          IN  IF sc.num * 100 >= GreenPct * sc.den THEN "green"
                              ELSE IF sc.num * 100 >= YellowPct * sc.den
                                   THEN "yellow" ELSE "red"

\* C7: every teammate record of a death with exactly one player of the
\* victim's team other than the subject at its tick has the weight 1.
C7_SingleTeammateWeightOne ==
    AfterTeammates =>
        \A d \in DeathRows :
            Cardinality(SameTeamOthers(d)) = 1 =>
                \A i \in RecordsAt(d.tick) :
                    teammates_data[i].softmax.num = teammates_data[i].softmax.den

\* a record was made for a single teammate away from the death position
C7_Witness ==
    /\ pc = "get_death_values"
    /\ \E d \in DeathRows :
          /\ Cardinality(SameTeamOthers(d)) = 1
          /\ RecordsAt(d.tick) # {}
          /\ \A i \in SameTeamOthers(d) : SqDist(d, demo_data.ticks[i]) > 0

\* C8: the closest teammate recorded for a tick is a player of the victim's
\* team other than the subject, with a row at that tick, whose distance to
\* the death position is the least among these players.
C8_ClosestTeammateIsNearest ==
    AfterDeathValues =>
        \A e \in 1..Len(death_values) :
            \E d \in DeathRows :
                /\ d.tick = death_values[e].tick
                /\ \E i \in SameTeamOthers(d) :
                      /\ demo_data.ticks[i].name = death_values[e].teammate
                      /\ \A j \in SameTeamOthers(d) :
                            SqDist(d, demo_data.ticks[i])
                                <= SqDist(d, demo_data.ticks[j])

\* two teammates at different distances, the nearer one later in the table
C8_Witness ==
    /\ pc = "calc_weight"
    /\ \E e \in 1..Len(death_values), d \in DeathRows :
          /\ d.tick = death_values[e].tick
          /\ \E i, j \in SameTeamOthers(d) :
                /\ i < j
                /\ SqDist(d, demo_data.ticks[j]) < SqDist(d, demo_data.ticks[i])
                /\ demo_data.ticks[j].name = death_values[e].teammate

====
